---- MODULE Spec2Model ----
(***************************************************************************)
(* Bearer-token authentication of outerspace: the key material built by    *)
(* the ignite fairing (src/authentication/mod.rs), the token decoder, the  *)
(* permission check (src/authentication/permissions.rs) and the three      *)
(* request guards AccessToken, AuthorizedUser and AdminUser.               *)
(*                                                                         *)
(* A token is modelled by the parts the decoder looks at: whether its      *)
(* header parses, the header's alg and kid, the key that produced its      *)
(* signature, its audience, whether the registered claims that the         *)
(* jsonwebtoken validation requires are present, the instant its exp claim *)
(* runs out, and the payload fields that AccessToken deserializes.         *)
(***************************************************************************)
EXTENDS Integers, Sequences, FiniteSets, TLC

VARIABLES env, phase, managed, requests, fetches, now

vars == <<env, phase, managed, requests, fetches, now>>

----------------------------------------------------------------------------
(* Bounds *)

\* longest permissions array of a token payload
MaxPerms == 2
\* longest key list of a remote key set (specification SpecBoot)
MaxJwks == 2
\* last reading of the clock (specification SpecTime)
MaxTime == 2

----------------------------------------------------------------------------
(* Values *)

None == "None"

Kids == {"k1", "k2"}
RsaKeys == {"K1", "K2"}
Secrets == {"s1"}
Users == {"u1", "u2"}
Algorithms == {"HS256", "RS256"}
DefaultAud == "outerspace.silenlocatelli.com"
CustomAud == "custom.example"
Guards == {"AccessToken", "AuthorizedUser", "AdminUser"}

\* Result: std::env::var gives Ok(value) or Err("NotPresent" | "NotUnicode")
Ok(v) == [ok |-> TRUE, val |-> v]
Err(e) == [ok |-> FALSE, val |-> e]

RECURSIVE SeqsUpTo(_, _)
SeqsUpTo(S, n) ==
    IF n = 0 THEN {<< >>}
    ELSE LET shorter == SeqsUpTo(S, n - 1)
         IN  shorter \cup {Append(s, x) : s \in {t \in shorter : Len(t) = n - 1}, x \in S}

\* the permissions member of a payload: absent (<< >>), or an array of
\* strings (<<array>>)
RawPermissions == {<< >>} \cup {<<a>> : a \in SeqsUpTo({"admin", "other"}, MaxPerms)}

\* a payload that does not deserialize at all (user_id missing or no uuid)
BadPayload == [user_id |-> None, email |-> None, permissions |-> << >>]

Payloads ==
    {BadPayload} \cup
    [user_id : Users, email : {None}, permissions : RawPermissions]

\* the instants a token's exp claim (with the validation's leeway) can run
\* out at: the token is accepted up to that reading of the clock
Expiries == 0 .. MaxTime

\* a string that is no JWT: decode_header fails on it
GarbageToken ==
    [parses |-> FALSE, alg |-> "HS256", kid |-> None, signer |-> "s1",
     aud |-> DefaultAud, required |-> TRUE, exp |-> MaxTime, payload |-> BadPayload]

Tokens ==
    {GarbageToken} \cup
    [parses : {TRUE}, alg : Algorithms, kid : {None} \cup Kids,
     signer : Secrets \cup RsaKeys, aud : {DefaultAud, CustomAud},
     required : BOOLEAN, exp : {MaxTime}, payload : Payloads]

\* the same tokens with every expiry
expiring(tokens) == {[t EXCEPT !.exp = x] : t \in tokens, x \in Expiries}

----------------------------------------------------------------------------
(* Key material: src/authentication/mod.rs, lines 25-103 *)

\* one entry of the remote key set: the key DecodingKey::from_jwk builds
\* from it (None when it builds none) and its key_id (None when absent)
JwkEntries == [key : RsaKeys \cup {None}, kid : Kids \cup {None}]

\* fn validation(algo): audience from AUTH_JWT_AUD or the default literal,
\* "tax_platform_apps" added to the required claims (default: exp)
validation(e, algo) ==
    [algorithms |-> {algo},
     aud |-> IF e.AUTH_JWT_AUD.ok THEN e.AUTH_JWT_AUD.val ELSE DefaultAud,
     required_spec_claims |-> {"exp", "tax_platform_apps"}]

\* fn load_jwk_secret
load_jwk_secret(e) ==
    IF ~e.AUTH_HS256_SECRET.ok THEN Err(e.AUTH_HS256_SECRET.val)
    ELSE Ok([key |-> e.AUTH_HS256_SECRET.val, validation |-> validation(e, "HS256")])

\* the filter_map closure, were an entry without usable key kept
jwk_entry_keeps_unusable(e, jwk) ==
    IF jwk.kid = None THEN << >>
    ELSE << <<jwk.kid, [key |-> jwk.key, validation |-> validation(e, "RS256")]>> >>

\* the closure of filter_map in fetch_jwk_set: Some((kid, Decoder)) as a
\* one-element sequence, None as the empty one
jwk_entry(e, jwk) ==
    IF jwk.key = None THEN << >>
    ELSE IF jwk.kid = None THEN << >>
    ELSE << <<jwk.kid, [key |-> jwk.key, validation |-> validation(e, "RS256")]>> >>

\* .collect() into a HashMap: a later entry replaces an earlier one of the
\* same kid
RECURSIVE collect(_, _)
collect(e, keys) ==
    IF keys = << >> THEN << >>
    ELSE LET n == Len(keys)
             init == collect(e, SubSeq(keys, 1, n - 1))
             item == jwk_entry(e, keys[n])
         IN  IF item = << >> THEN init
             ELSE [k \in DOMAIN init \cup {item[1][1]} |->
                      IF k = item[1][1] THEN item[1][2] ELSE init[k]]

\* the GET requests fetch_jwk_set sends: one when the URL can be read
fetch_attempts(e) == IF e.AUTH_JWKS_URL.ok THEN 1 ELSE 0

\* async fn fetch_jwk_set
fetch_jwk_set(e) ==
    IF ~e.AUTH_JWKS_URL.ok THEN Err(e.AUTH_JWKS_URL.val)
    ELSE IF ~e.remote.ok THEN Err(e.remote.val)
    ELSE Ok(collect(e, e.remote.val))

\* enum Decoders, and the absence of a managed value
Single(decoder) == [kind |-> "Single", single |-> <<decoder>>, map |-> << >>]
Multiple(map) == [kind |-> "Multiple", single |-> << >>, map |-> map]
Unmanaged == [kind |-> "Unmanaged", single |-> << >>, map |-> << >>]

\* fairing, were it to start without key material when both sources fail
fairing_starts_anyway(e) ==
    LET multiple == fetch_jwk_set(e)
        single == load_jwk_secret(e)
    IN  IF multiple.ok THEN Ok(Multiple(multiple.val))
        ELSE IF single.ok THEN Ok(Single(single.val))
        ELSE Ok(Multiple(<< >>))

\* fairing, were it to take the shared secret whenever it is set
fairing_prefers_secret(e) ==
    LET multiple == fetch_jwk_set(e)
        single == load_jwk_secret(e)
    IN  IF single.ok THEN Ok(Single(single.val))
        ELSE IF multiple.ok THEN Ok(Multiple(multiple.val))
        ELSE Err(Unmanaged)

\* fairing, were it to let the launch go on with nothing managed
fairing_starts_unmanaged(e) ==
    LET multiple == fetch_jwk_set(e)
        single == load_jwk_secret(e)
    IN  IF multiple.ok THEN Ok(Multiple(multiple.val))
        ELSE IF single.ok THEN Ok(Single(single.val))
        ELSE Ok(Unmanaged)

\* the closure of fairing(): Ok(rocket.manage(keys)) or Err(rocket)
fairing(e) ==
    LET multiple == fetch_jwk_set(e)
        single == load_jwk_secret(e)
    IN  IF multiple.ok THEN Ok(Multiple(multiple.val))
        ELSE IF single.ok THEN Ok(Single(single.val))
        ELSE Err(Unmanaged)

----------------------------------------------------------------------------
(* Token decoder: src/authentication/mod.rs, lines 63-81 and 105-112 *)

\* the outcome of a decode: Ok(AccessToken) or Err(error), and what the
\* call did on the way: the steps it took and the keys it verified against
Decoded(claims, steps, tried) ==
    [ok |-> TRUE, claims |-> claims, err |-> None, steps |-> steps, tried |-> tried]
Failed(err, steps, tried) ==
    [ok |-> FALSE, claims |-> BadPayload, err |-> err, steps |-> steps, tried |-> tried]

\* enum Permission with #[serde(rename = "admin")]
Permission(str) == IF str = "admin" THEN Ok("Admin") ELSE Err("unknown variant")

\* AccessToken, were permissions to lack #[serde(default)]
AccessToken_no_default(payload) ==
    IF payload.user_id = None THEN Err("missing field")
    ELSE IF payload.permissions = << >> THEN Err("missing field")
    ELSE LET array == payload.permissions[1]
         IN  IF \E i \in DOMAIN array : ~Permission(array[i]).ok
             THEN Err("unknown variant")
             ELSE Ok([user_id |-> payload.user_id, email |-> payload.email,
                      permissions |-> [i \in DOMAIN array |-> Permission(array[i]).val]])

\* #[derive(Deserialize)] struct AccessToken: user_id is required,
\* permissions has #[serde(default)], every entry must be a Permission
AccessToken(payload) ==
    IF payload.user_id = None THEN Err("missing field")
    ELSE IF payload.permissions = << >>
    THEN Ok([user_id |-> payload.user_id, email |-> payload.email, permissions |-> << >>])
    ELSE LET array == payload.permissions[1]
         IN  IF \E i \in DOMAIN array : ~Permission(array[i]).ok
             THEN Err("unknown variant")
             ELSE Ok([user_id |-> payload.user_id, email |-> payload.email,
                      permissions |-> [i \in DOMAIN array |-> Permission(array[i]).val]])

\* jsonwebtoken::decode_header
decode_header(token) ==
    IF token.parses THEN Ok([alg |-> token.alg, kid |-> token.kid])
    ELSE Err("InvalidToken")

\* Decoder::decode, were the validation not to check the audience
Decoder_decode_no_audience(decoder, token) ==
    LET steps == <<"decode_header", "verify">>
        tried == {decoder.key}
        claims == AccessToken(token.payload)
    IN  IF ~token.parses THEN Failed("InvalidToken", steps, tried)
        ELSE IF token.alg \notin decoder.validation.algorithms
        THEN Failed("InvalidAlgorithm", steps, tried)
        ELSE IF token.signer # decoder.key
        THEN Failed("InvalidSignature", steps, tried)
        ELSE IF ~claims.ok THEN Failed("Json", steps, tried)
        ELSE IF ~token.required THEN Failed("MissingRequiredClaim", steps, tried)
        ELSE IF token.exp < now THEN Failed("ExpiredSignature", steps, tried)
        ELSE Decoded(claims.val, steps, tried)

\* Decoder::decode: jsonwebtoken::decode(token, &self.key, &self.validation)
\* checks the declared algorithm and the signature against the key,
\* deserializes the payload, and validates required claims, expiry (which
\* Validation::new leaves switched on) against the clock, and audience
Decoder_decode(decoder, token) ==
    LET steps == <<"decode_header", "verify">>
        tried == {decoder.key}
        claims == AccessToken(token.payload)
    IN  IF ~token.parses THEN Failed("InvalidToken", steps, tried)
        ELSE IF token.alg \notin decoder.validation.algorithms
        THEN Failed("InvalidAlgorithm", steps, tried)
        ELSE IF token.signer # decoder.key
        THEN Failed("InvalidSignature", steps, tried)
        ELSE IF ~claims.ok THEN Failed("Json", steps, tried)
        ELSE IF ~token.required THEN Failed("MissingRequiredClaim", steps, tried)
        ELSE IF token.exp < now THEN Failed("ExpiredSignature", steps, tried)
        ELSE IF token.aud # decoder.validation.aud
        THEN Failed("InvalidAudience", steps, tried)
        ELSE Decoded(claims.val, steps, tried)

\* Decoders::decode, were it to try every key of the map on a token whose
\* kid selects none
Decoders_decode_any_key(decoders, token) ==
    LET header == decode_header(token)
        known == header.val.kid # None /\ header.val.kid \in DOMAIN decoders.map
        passing == {k \in DOMAIN decoders.map : Decoder_decode(decoders.map[k], token).ok}
    IN  IF ~header.ok THEN Failed(header.val, <<"decode_header">>, {})
        ELSE IF decoders.kind = "Single"
        THEN Decoder_decode(decoders.single[1], token)
        ELSE IF known THEN Decoder_decode(decoders.map[header.val.kid], token)
        ELSE IF passing # {}
        THEN [Decoder_decode(decoders.map[CHOOSE k \in passing : TRUE], token)
                 EXCEPT !.tried = {decoders.map[k].key : k \in DOMAIN decoders.map}]
        ELSE Failed("unknown token key", <<"decode_header", "verify">>,
                    {decoders.map[k].key : k \in DOMAIN decoders.map})

\* Decoders::decode, were the other keys of the map tried after the named
\* key has failed
Decoders_decode_fallback(decoders, token) ==
    LET header == decode_header(token)
        named == Decoder_decode(decoders.map[header.val.kid], token)
        passing == {k \in DOMAIN decoders.map : Decoder_decode(decoders.map[k], token).ok}
    IN  IF ~header.ok THEN Failed(header.val, <<"decode_header">>, {})
        ELSE IF decoders.kind = "Single"
        THEN Decoder_decode(decoders.single[1], token)
        ELSE IF header.val.kid = None \/ header.val.kid \notin DOMAIN decoders.map
        THEN Failed("unknown token key", <<"decode_header">>, {})
        ELSE IF named.ok \/ passing = {} THEN named
        ELSE [Decoder_decode(decoders.map[CHOOSE k \in passing : TRUE], token)
                 EXCEPT !.tried = {decoders.map[k].key : k \in DOMAIN decoders.map}]

\* Decoders::decode, were the kid looked up before the match on the variant
Decoders_decode_kid_first(decoders, token) ==
    LET header == decode_header(token)
    IN  IF ~header.ok THEN Failed(header.val, <<"decode_header">>, {})
        ELSE IF header.val.kid = None
        THEN Failed("unknown token key", <<"decode_header">>, {})
        ELSE IF decoders.kind = "Single"
        THEN Decoder_decode(decoders.single[1], token)
        ELSE IF header.val.kid \in DOMAIN decoders.map
        THEN Decoder_decode(decoders.map[header.val.kid], token)
        ELSE Failed("unknown token key", <<"decode_header">>, {})

\* Decoders::decode
Decoders_decode(decoders, token) ==
    LET header == decode_header(token)
    IN  IF ~header.ok THEN Failed(header.val, <<"decode_header">>, {})
        ELSE IF decoders.kind = "Single"
        THEN Decoder_decode(decoders.single[1], token)
        ELSE IF header.val.kid # None /\ header.val.kid \in DOMAIN decoders.map
        THEN Decoder_decode(decoders.map[header.val.kid], token)
        ELSE Failed("unknown token key", <<"decode_header">>, {})

----------------------------------------------------------------------------
(* Permissions: src/authentication/permissions.rs, lines 21-45 *)

\* require_permission, were it to use all() for any()
require_permission_all(claims, expected_scope) ==
    IF \A i \in DOMAIN claims.permissions : claims.permissions[i] = expected_scope
    THEN Ok(claims)
    ELSE Err(<<"user has only:", claims.permissions>>)

\* AccessToken::require_permission: any(|scope| scope == expected_scope)
require_permission(claims, expected_scope) ==
    IF \E i \in DOMAIN claims.permissions : claims.permissions[i] = expected_scope
    THEN Ok(claims)
    ELSE Err(<<"user has only:", claims.permissions>>)

\* AccessToken::to_admin
to_admin(claims) ==
    LET required == require_permission(claims, "Admin")
    IN  IF required.ok THEN Ok("AdminUser") ELSE Err(required.val)

\* AuthorizedUser::create (src/model/read/mod.rs)
AuthorizedUser_create(id) == Ok([id |-> id])

----------------------------------------------------------------------------
(* Request guards: src/authentication/mod.rs, lines 114-192 *)

\* the authorization header of a request: absent, or a value made of a
\* leading scheme text and the rest
NoHeader == [present |-> FALSE, prefix |-> "", rest |-> GarbageToken]
Header(prefix, rest) == [present |-> TRUE, prefix |-> prefix, rest |-> rest]

\* strip_prefix, were it to compare without regard to case
strip_prefix_ignore_case(v, prefix) ==
    IF v.prefix = prefix \/ (prefix = "Bearer " /\ v.prefix = "bearer ")
    THEN <<v.rest>> ELSE << >>

\* str::strip_prefix: Some(rest) as a one-element sequence, None as << >>
strip_prefix(v, prefix) == IF v.prefix = prefix THEN <<v.rest>> ELSE << >>

\* request.headers().get("authorization").next().and_then(strip_prefix)
bearer(authorization) ==
    IF ~authorization.present THEN << >>
    ELSE strip_prefix(authorization, "Bearer ")

\* rocket::request::Outcome, with the steps the guard took and the keys it
\* verified the token against
NoOutcome ==
    [kind |-> "None", status |-> None, value |-> None, error |-> None,
     steps |-> << >>, tried |-> {}]
Success(value, steps, tried) ==
    [kind |-> "Success", status |-> None, value |-> value, error |-> None,
     steps |-> steps, tried |-> tried]
Error(status, error, steps, tried) ==
    [kind |-> "Error", status |-> status, value |-> None, error |-> error,
     steps |-> steps, tried |-> tried]
Forward(status, steps, tried) ==
    [kind |-> "Forward", status |-> status, value |-> None, error |-> None,
     steps |-> steps, tried |-> tried]

\* the AccessToken guard, were a decode error answered with Forbidden
AccessToken_from_request_forbidden(authorization, state) ==
    LET token == bearer(authorization)
        decoded == Decoders_decode(state, token[1])
    IN  IF token = << >>
        THEN Error("Unauthorized", "missing authorization token", <<"authorization">>, {})
        ELSE IF state.kind = "Unmanaged"
        THEN Forward("Ok", <<"authorization", "state">>, {})
        ELSE IF decoded.ok
        THEN Success(decoded.claims, <<"authorization", "state">> \o decoded.steps,
                     decoded.tried)
        ELSE Error("Forbidden", decoded.err,
                   <<"authorization", "state">> \o decoded.steps, decoded.tried)

\* impl FromRequest for AccessToken
AccessToken_from_request(authorization, state) ==
    LET token == bearer(authorization)
        decoded == Decoders_decode(state, token[1])
    IN  IF token = << >>
        THEN Error("Unauthorized", "missing authorization token", <<"authorization">>, {})
        ELSE IF state.kind = "Unmanaged"
        THEN Forward("Ok", <<"authorization", "state">>, {})
        ELSE IF decoded.ok
        THEN Success(decoded.claims, <<"authorization", "state">> \o decoded.steps,
                     decoded.tried)
        ELSE Error("Unauthorized", decoded.err,
                   <<"authorization", "state">> \o decoded.steps, decoded.tried)

\* impl FromRequest for AuthorizedUser
AuthorizedUser_from_request(authorization, state) ==
    LET token == AccessToken_from_request(authorization, state)
        user == AuthorizedUser_create(token.value.user_id)
    IN  IF token.kind # "Success" THEN token
        ELSE IF user.ok
        THEN Success(user.val, Append(token.steps, "create"), token.tried)
        ELSE Error("Forbidden", user.val, Append(token.steps, "create"), token.tried)

\* the AdminUser guard, were a missing permission answered with Unauthorized
AdminUser_from_request_unauthorized(authorization, state) ==
    LET token == AccessToken_from_request(authorization, state)
        admin == to_admin(token.value)
    IN  IF token.kind # "Success" THEN token
        ELSE IF admin.ok
        THEN Success(admin.val, Append(token.steps, "to_admin"), token.tried)
        ELSE Error("Unauthorized", "you do not have enough permission",
                   Append(token.steps, "to_admin"), token.tried)

\* impl FromRequest for AdminUser
AdminUser_from_request(authorization, state) ==
    LET token == AccessToken_from_request(authorization, state)
        admin == to_admin(token.value)
    IN  IF token.kind # "Success" THEN token
        ELSE IF admin.ok
        THEN Success(admin.val, Append(token.steps, "to_admin"), token.tried)
        ELSE Error("Forbidden", "you do not have enough permission",
                   Append(token.steps, "to_admin"), token.tried)

from_request(guard, authorization, state) ==
    CASE guard = "AccessToken" -> AccessToken_from_request(authorization, state)
      [] guard = "AuthorizedUser" -> AuthorizedUser_from_request(authorization, state)
      [] guard = "AdminUser" -> AdminUser_from_request(authorization, state)

\* impl From<AuthorizedUser> for MeUser, returned as Json by get_me
MeUser(value) == [id |-> value.id]

NoResponse == [sent |-> FALSE, status |-> None, body |-> None]

----------------------------------------------------------------------------
(* The process *)

ReqIds == {"r1"}

\* the environment the process is started in
Envs(urls, remotes, secrets, auds) ==
    [AUTH_JWKS_URL : urls, remote : remotes, AUTH_HS256_SECRET : secrets,
     AUTH_JWT_AUD : auds]

Jwk(key, kid) == [key |-> key, kid |-> kid]

\* the authorization headers requests arrive with
SampleTokens ==
    {t \in Tokens : t.parses /\ t.aud = DefaultAud /\ t.required
                    /\ t.payload = [user_id |-> "u1", email |-> None,
                                    permissions |-> << <<"admin">> >>]}

Headers(tokens) ==
    {NoHeader} \cup {Header("Bearer ", t) : t \in tokens}
    \cup {Header(p, t) : p \in {"bearer ", "Basic "}, t \in SampleTokens \cap tokens}

\* rocket::build().mount(..).attach(fairing()) has run; ignition has not
InitIn(envs) ==
    /\ env \in envs
    /\ phase = "build"
    /\ managed = Unmanaged
    /\ requests = << >>
    /\ fetches = 0
    /\ now = 0

\* ignition runs the fairing: key material is managed and the server goes
\* into orbit, or the launch is aborted
Ignite ==
    /\ phase = "build"
    /\ LET ignited == fairing(env)
       IN  IF ignited.ok
           THEN phase' = "orbit" /\ managed' = ignited.val
           ELSE phase' = "failed" /\ managed' = managed
    /\ fetches' = fetches + fetch_attempts(env)
    /\ UNCHANGED <<env, requests, now>>

\* a request arrives
Receive(r, authorization) ==
    /\ phase = "orbit"
    /\ r \notin DOMAIN requests
    /\ requests' = [x \in DOMAIN requests \cup {r} |->
                       IF x = r
                       THEN [authorization |-> authorization,
                             outcome |-> [g \in Guards |-> NoOutcome],
                             at |-> [g \in Guards |-> 0],
                             response |-> NoResponse]
                       ELSE requests[x]]
    /\ UNCHANGED <<env, phase, managed, fetches, now>>

\* the guard step, were the last outcome of a guard kept in one place for
\* all requests in flight
Guard_shared(r, g) ==
    /\ r \in DOMAIN requests
    /\ requests[r].outcome[g].kind = "None"
    /\ ~requests[r].response.sent
    /\ LET last == from_request(g, requests[r].authorization, managed)
       IN  requests' = [x \in DOMAIN requests |->
                           IF x = r \/ ~requests[x].response.sent
                           THEN [requests[x] EXCEPT !.outcome[g] = last, !.at[g] = now]
                           ELSE requests[x]]
    /\ UNCHANGED <<env, phase, managed, fetches, now>>

\* the guard step, were a token refused that another request in flight has
\* already presented to the guard
Guard_no_replay(r, g) ==
    /\ r \in DOMAIN requests
    /\ requests[r].outcome[g].kind = "None"
    /\ ~requests[r].response.sent
    /\ LET seen == \E x \in DOMAIN requests \ {r} :
                      /\ requests[x].authorization = requests[r].authorization
                      /\ requests[x].outcome[g].kind # "None"
           first == from_request(g, requests[r].authorization, managed)
       IN  requests' = [requests EXCEPT
                           ![r].outcome[g] =
                               IF seen /\ first.kind = "Success"
                               THEN Error("Unauthorized", "replayed", first.steps, first.tried)
                               ELSE first,
                           ![r].at[g] = now]
    /\ UNCHANGED <<env, phase, managed, fetches, now>>

\* the guard step, were the key set fetched again for a token of unknown key
Guard_refetch(r, g) ==
    /\ r \in DOMAIN requests
    /\ requests[r].outcome[g].kind = "None"
    /\ ~requests[r].response.sent
    /\ LET first == from_request(g, requests[r].authorization, managed)
           again == fairing(env)
           state == IF first.error = "unknown token key" /\ again.ok
                    THEN again.val ELSE managed
       IN  /\ requests' = [requests EXCEPT
                              ![r].outcome[g] =
                                  from_request(g, requests[r].authorization, state),
                              ![r].at[g] = now]
           /\ managed' = state
           /\ fetches' = IF first.error = "unknown token key"
                         THEN fetches + fetch_attempts(env) ELSE fetches
    /\ UNCHANGED <<env, phase, now>>

\* a guard of the request is evaluated
Guard(r, g) ==
    /\ r \in DOMAIN requests
    /\ requests[r].outcome[g].kind = "None"
    /\ ~requests[r].response.sent
    /\ requests' = [requests EXCEPT
                       ![r].outcome[g] = from_request(g, requests[r].authorization, managed),
                       ![r].at[g] = now]
    /\ UNCHANGED <<env, phase, managed, fetches, now>>

\* #[get("/users/me")] fn get_me(req_user: AuthorizedUser)
get_me(r) ==
    /\ r \in DOMAIN requests
    /\ requests[r].outcome["AuthorizedUser"].kind = "Success"
    /\ ~requests[r].response.sent
    /\ requests' = [requests EXCEPT ![r].response =
                       [sent |-> TRUE, status |-> "Ok",
                        body |-> MeUser(requests[r].outcome["AuthorizedUser"].value)]]
    /\ UNCHANGED <<env, phase, managed, fetches, now>>

\* the guard of the route failed: the handler is not called and the
\* outcome's status is the response
Reject(r) ==
    /\ r \in DOMAIN requests
    /\ requests[r].outcome["AuthorizedUser"].kind \in {"Error", "Forward"}
    /\ ~requests[r].response.sent
    /\ requests' = [requests EXCEPT ![r].response =
                       [sent |-> TRUE,
                        status |-> requests[r].outcome["AuthorizedUser"].status,
                        body |-> None]]
    /\ UNCHANGED <<env, phase, managed, fetches, now>>

\* the clock moves on
Tick ==
    /\ now < MaxTime
    /\ now' = now + 1
    /\ UNCHANGED <<env, phase, managed, requests, fetches>>

\* the response is out and the request is gone
Finish(r) ==
    /\ r \in DOMAIN requests
    /\ requests[r].response.sent
    /\ requests' = [x \in DOMAIN requests \ {r} |-> requests[x]]
    /\ UNCHANGED <<env, phase, managed, fetches, now>>

ServeEnvs ==
    Envs({Ok("url")},
         {Err("unreachable"), Ok(<<Jwk("K1", "k1")>>),
          Ok(<<Jwk("K1", "k1"), Jwk("K2", "k2")>>)},
         {Err("NotPresent"), Ok("s1")},
         {Err("NotPresent"), Ok(CustomAud)})

Init == InitIn(ServeEnvs)

Next ==
    \/ Ignite
    \/ \E r \in ReqIds, h \in Headers(Tokens) : Receive(r, h)
    \/ \E r \in ReqIds, g \in Guards : Guard(r, g)
    \/ \E r \in ReqIds : get_me(r)
    \/ \E r \in ReqIds : Reject(r)
    \/ \E r \in ReqIds : Finish(r)

Spec == Init /\ [][Next]_vars

\* Startup under every environment: the remote key set is any list of at
\* most MaxJwks entries, and a few requests follow
BootEnvs ==
    Envs({Ok("url")},
         {Err("unreachable"), Err("malformed")}
            \cup {Ok(keys) : keys \in SeqsUpTo(JwkEntries, MaxJwks)},
         {Err("NotPresent"), Err("NotUnicode"), Ok("s1")},
         {Err("NotPresent"), Ok(CustomAud)})
    \cup
    Envs({Err("NotPresent")}, {Err("unreachable")},
         {Err("NotPresent"), Err("NotUnicode"), Ok("s1")},
         {Err("NotPresent"), Ok(CustomAud)})

\* tokens with a signature of the declared algorithm
Signed(t) == (t.alg = "HS256") <=> (t.signer \in Secrets)

BootTokens == {t \in SampleTokens : Signed(t) /\ t.kid = "k1"}

InitBoot == InitIn(BootEnvs)

NextBoot ==
    \/ Ignite
    \/ \E r \in ReqIds, h \in {NoHeader} \cup {Header("Bearer ", t) : t \in BootTokens} :
          Receive(r, h)
    \/ \E r \in ReqIds, g \in Guards : Guard(r, g)
    \/ \E r \in ReqIds : get_me(r)
    \/ \E r \in ReqIds : Reject(r)
    \/ \E r \in ReqIds : Finish(r)

SpecBoot == InitBoot /\ [][NextBoot]_vars

\* Two requests in flight at once, each resolved by the AccessToken guard
PairIds == {"r1", "r2"}

PairTokens ==
    {t \in Tokens : /\ t.parses /\ t.required
                    /\ t.payload \in {[user_id |-> "u1", email |-> None,
                                       permissions |-> << <<"admin">> >>],
                                      [user_id |-> "u2", email |-> None,
                                       permissions |-> << >>]}}

PairEnvs ==
    Envs({Ok("url")},
         {Err("unreachable"), Ok(<<Jwk("K1", "k1")>>)},
         {Ok("s1")},
         {Err("NotPresent"), Ok(CustomAud)})

InitPair == InitIn(PairEnvs)

NextPair ==
    \/ Ignite
    \/ \E r \in PairIds, t \in PairTokens : Receive(r, Header("Bearer ", t))
    \/ \E r \in PairIds : Guard(r, "AccessToken")

SpecPair == InitPair /\ [][NextPair]_vars

\* Two requests in flight at once, each with all guards and the route
ConcTokens ==
    {GarbageToken} \cup
    {t \in Tokens : /\ t.parses /\ t.required /\ Signed(t)
                    /\ t.aud = DefaultAud /\ t.kid \in Kids
                    /\ t.payload \in {[user_id |-> "u1", email |-> None,
                                       permissions |-> << <<"admin">> >>],
                                      [user_id |-> "u2", email |-> None,
                                       permissions |-> << >>]}}

ConcEnvs ==
    Envs({Ok("url")},
         {Err("unreachable"), Ok(<<Jwk("K1", "k1")>>)},
         {Ok("s1")},
         {Err("NotPresent")})

InitConc == InitIn(ConcEnvs)

NextConc ==
    \/ Ignite
    \/ \E r \in PairIds, h \in {NoHeader} \cup {Header("Bearer ", t) : t \in ConcTokens} :
          Receive(r, h)
    \/ \E r \in PairIds, g \in Guards : Guard(r, g)
    \/ \E r \in PairIds : get_me(r)
    \/ \E r \in PairIds : Reject(r)
    \/ \E r \in PairIds : Finish(r)

SpecConc == InitConc /\ [][NextConc]_vars

\* Two requests resolved by the AccessToken guard while the clock moves and
\* tokens run out
TimeTokens ==
    expiring({t \in ConcTokens : /\ t.parses /\ t.kid = "k1"
                                 /\ t.payload.user_id = "u1"})

InitTime == InitIn(ConcEnvs)

NextTime ==
    \/ Ignite
    \/ Tick
    \/ \E r \in PairIds, t \in TimeTokens : Receive(r, Header("Bearer ", t))
    \/ \E r \in PairIds : Guard(r, "AccessToken")

SpecTime == InitTime /\ [][NextTime]_vars

----------------------------------------------------------------------------
(* Properties *)

Range(f) == {f[i] : i \in DOMAIN f}

Evaluated(r, g) == r \in DOMAIN requests /\ requests[r].outcome[g].kind # "None"

\* the request carries an authorization header that starts with "Bearer "
CarriesBearer(r) ==
    requests[r].authorization.present /\ requests[r].authorization.prefix = "Bearer "

TokenOf(r) == requests[r].authorization.rest

\* the decoders a token's header selects in the key material
Selected(decoders, token) ==
    IF decoders.kind = "Single" THEN {decoders.single[1]}
    ELSE IF decoders.kind = "Multiple" /\ token.kid \in DOMAIN decoders.map
    THEN {decoders.map[token.kid]}
    ELSE {}

\* signature, algorithm, audience and required claims of the token hold
\* under the decoder
VerifiesUnder(token, d) ==
    /\ token.parses
    /\ token.signer = d.key
    /\ token.alg \in d.validation.algorithms
    /\ token.aud = d.validation.aud
    /\ token.required

\* the strings of the payload's permissions array
RawPermissionsOf(payload) ==
    IF payload.permissions = << >> THEN {} ELSE Range(payload.permissions[1])

\* the payload has a user id and only known permissions
WellTyped(payload) ==
    /\ payload.user_id \in Users
    /\ RawPermissionsOf(payload) \subseteq {"admin"}

FullyVerified(token, decoders) ==
    /\ WellTyped(token.payload)
    /\ \E d \in Selected(decoders, token) : VerifiesUnder(token, d)

\* C1: with Multiple key material, a token whose header parses and names no
\* key-identifier, or one that is no key of the map, fails with the
\* unknown-key error in every guard, and no key was tried on it.
C1_UnknownKeyFailsClosed ==
    \A r \in DOMAIN requests : \A g \in Guards :
        ( /\ Evaluated(r, g) /\ CarriesBearer(r)
          /\ managed.kind = "Multiple"
          /\ TokenOf(r).parses
          /\ TokenOf(r).kid \notin DOMAIN managed.map )
        => /\ requests[r].outcome[g].kind = "Error"
           /\ requests[r].outcome[g].error = "unknown token key"
           /\ requests[r].outcome[g].tried = {}
           /\ "verify" \notin Range(requests[r].outcome[g].steps)

\* a token without kid whose signature verifies under a key of the map has
\* been through the AccessToken guard
C1_Witness ==
    \E r \in DOMAIN requests :
        /\ Evaluated(r, "AccessToken") /\ CarriesBearer(r)
        /\ managed.kind = "Multiple"
        /\ TokenOf(r).kid = None
        /\ WellTyped(TokenOf(r).payload)
        /\ \E k \in DOMAIN managed.map : VerifiesUnder(TokenOf(r), managed.map[k])

\* C2: a guard yields an identity only for a request whose bearer token
\* passes the full verification against the managed key material, and the
\* identity is the one the token's payload states.
C2_IdentityOnlyFromVerified ==
    \A r \in DOMAIN requests : \A g \in Guards :
        requests[r].outcome[g].kind = "Success"
        => /\ CarriesBearer(r)
           /\ FullyVerified(TokenOf(r), managed)
           /\ "verify" \in Range(requests[r].outcome[g].steps)
           /\ g = "AccessToken" =>
                 requests[r].outcome[g].value.user_id = TokenOf(r).payload.user_id
           /\ g = "AuthorizedUser" =>
                 requests[r].outcome[g].value.id = TokenOf(r).payload.user_id
           /\ g = "AdminUser" =>
                 "admin" \in RawPermissionsOf(TokenOf(r).payload)

C2_Witness ==
    \E r \in DOMAIN requests :
        /\ requests[r].outcome["AuthorizedUser"].kind = "Success"
        /\ requests[r].outcome["AdminUser"].kind = "Success"

\* C6: a request without authorization header, or with one that does not
\* start with "Bearer ", ends every guard with Unauthorized, and the guard
\* took no step after reading the header: no key material lookup, no parsing.
C6_NoTokenUnauthorizedFirst ==
    \A r \in DOMAIN requests : \A g \in Guards :
        (Evaluated(r, g) /\ ~CarriesBearer(r))
        => /\ requests[r].outcome[g].kind = "Error"
           /\ requests[r].outcome[g].status = "Unauthorized"
           /\ requests[r].outcome[g].steps = <<"authorization">>
           /\ requests[r].outcome[g].tried = {}

\* a header "Basic <token>" whose token would pass has been through a guard
C6_Witness ==
    \E r \in DOMAIN requests :
        /\ Evaluated(r, "AdminUser")
        /\ requests[r].authorization.present
        /\ requests[r].authorization.prefix # "Bearer "
        /\ FullyVerified(TokenOf(r), managed)

\* C7: a bearer token whose decode fails ends every guard with Unauthorized,
\* whatever the failure, and the response is that status without the
\* handler having run.
C7_DecodeFailureUnauthorized ==
    \A r \in DOMAIN requests :
        (CarriesBearer(r) /\ phase = "orbit" /\ ~Decoders_decode(managed, TokenOf(r)).ok)
        => /\ \A g \in Guards :
                 Evaluated(r, g) =>
                    /\ requests[r].outcome[g].kind = "Error"
                    /\ requests[r].outcome[g].status = "Unauthorized"
           /\ requests[r].response.sent =>
                 /\ requests[r].response.status = "Unauthorized"
                 /\ requests[r].response.body = None

\* a token with a bad signature has been rejected by the admin guard and
\* the route has answered
C7_Witness ==
    \E r \in DOMAIN requests :
        /\ CarriesBearer(r)
        /\ requests[r].outcome["AdminUser"].error = "InvalidSignature"
        /\ requests[r].response.sent

\* C8: a bearer token that decodes with user id U and no admin permission
\* passes the AuthorizedUser guard with id U, GET /users/me answers U, and
\* the AdminUser guard of the same request ends with Forbidden.
C8_UserNotAdmin ==
    \A r \in DOMAIN requests :
        LET decoded == Decoders_decode(managed, TokenOf(r))
        IN  ( /\ CarriesBearer(r) /\ phase = "orbit"
              /\ decoded.ok
              /\ "Admin" \notin Range(decoded.claims.permissions) )
            => /\ Evaluated(r, "AuthorizedUser") =>
                    /\ requests[r].outcome["AuthorizedUser"].kind = "Success"
                    /\ requests[r].outcome["AuthorizedUser"].value.id
                          = TokenOf(r).payload.user_id
               /\ requests[r].response.sent =>
                    /\ requests[r].response.status = "Ok"
                    /\ requests[r].response.body = [id |-> TokenOf(r).payload.user_id]
               /\ Evaluated(r, "AdminUser") =>
                    /\ requests[r].outcome["AdminUser"].kind = "Error"
                    /\ requests[r].outcome["AdminUser"].status = "Forbidden"

C8_Witness ==
    \E r \in DOMAIN requests :
        /\ requests[r].outcome["AuthorizedUser"].kind = "Success"
        /\ requests[r].outcome["AdminUser"].status = "Forbidden"
        /\ requests[r].response.sent
        /\ TokenOf(r).payload.user_id = "u2"

\* C10: require_permission succeeds exactly when the wanted permission is
\* among the claims' permissions, whatever their order and number, and
\* to_admin succeeds, with the AdminUser marker, exactly when
\* require_permission(Admin) does; the AdminUser guard follows it.
C10_RequirePermissionIsMembership ==
    \A r \in DOMAIN requests :
        requests[r].outcome["AccessToken"].kind = "Success"
        => LET claims == requests[r].outcome["AccessToken"].value
           IN  /\ require_permission(claims, "Admin").ok
                     <=> "Admin" \in Range(claims.permissions)
               /\ to_admin(claims).ok <=> "Admin" \in Range(claims.permissions)
               /\ to_admin(claims).ok => to_admin(claims).val = "AdminUser"
               /\ claims.permissions = <<"Admin">> => to_admin(claims).ok
               /\ claims.permissions = << >> => ~to_admin(claims).ok
               /\ Evaluated(r, "AdminUser") =>
                     (requests[r].outcome["AdminUser"].kind = "Success"
                         <=> "Admin" \in Range(claims.permissions))

\* claims that hold Admin more than once have passed the admin guard
C10_Witness ==
    \E r \in DOMAIN requests :
        /\ requests[r].outcome["AccessToken"].kind = "Success"
        /\ Len(requests[r].outcome["AccessToken"].value.permissions) > 1
        /\ requests[r].outcome["AdminUser"].kind = "Success"

\* the remote key set could not be retrieved: no URL, no answer, or an
\* answer that is no key set
RemoteFails == ~env.AUTH_JWKS_URL.ok \/ ~env.remote.ok

\* C3: when the remote retrieval fails and AUTH_HS256_SECRET cannot be read,
\* ignition fails, no key material is ever managed and no guard succeeds.
C3_NoKeySourceNoStart ==
    (RemoteFails /\ ~env.AUTH_HS256_SECRET.ok)
    => /\ phase \in {"build", "failed"}
       /\ managed = Unmanaged
       /\ \A r \in DOMAIN requests : \A g \in Guards :
             requests[r].outcome[g].kind # "Success"

C3_Witness ==
    /\ RemoteFails
    /\ env.AUTH_HS256_SECRET = Err("NotPresent")
    /\ phase = "failed"

\* C4: once started, the key material is Multiple whenever the remote
\* retrieval succeeded, whatever AUTH_HS256_SECRET is, and it is Single only
\* when the retrieval failed and the secret is present.
C4_FallbackOrder ==
    phase = "orbit"
    => /\ ~RemoteFails => managed.kind = "Multiple"
       /\ managed.kind = "Single" <=> (RemoteFails /\ env.AUTH_HS256_SECRET.ok)
       /\ managed.kind \in {"Single", "Multiple"}

\* both sources are there and the remote one has won
C4_Witness ==
    /\ phase = "orbit"
    /\ ~RemoteFails
    /\ env.AUTH_HS256_SECRET.ok
    /\ managed.kind = "Multiple"

\* C5: whenever the process has started, the managed key material holds at
\* least one verification key: it is Single, or Multiple with a key in the map.
C5_UsableKeyMaterial ==
    phase = "orbit" => (managed.kind = "Single" \/ DOMAIN managed.map # {})

\* C9: with Single key material two tokens that differ only in their kid get
\* the same outcome and the same claims, and the outcome is the verification
\* against the one configured key.
C9_SingleIgnoresKid ==
    \A r1 \in DOMAIN requests, r2 \in DOMAIN requests :
        ( /\ managed.kind = "Single"
          /\ Evaluated(r1, "AccessToken") /\ Evaluated(r2, "AccessToken")
          /\ [TokenOf(r1) EXCEPT !.kid = TokenOf(r2).kid] = TokenOf(r2) )
        => /\ requests[r1].outcome["AccessToken"].kind
                 = requests[r2].outcome["AccessToken"].kind
           /\ requests[r1].outcome["AccessToken"].error
                 = requests[r2].outcome["AccessToken"].error
           /\ requests[r1].outcome["AccessToken"].kind = "Success" =>
                 requests[r1].outcome["AccessToken"].value
                    = requests[r2].outcome["AccessToken"].value
           /\ requests[r1].outcome["AccessToken"].kind = "Success"
                 <=> ( /\ VerifiesUnder(TokenOf(r1), managed.single[1])
                       /\ WellTyped(TokenOf(r1).payload) )

\* a token without kid and its twin with a kid have both decoded
C9_Witness ==
    \E r1 \in DOMAIN requests, r2 \in DOMAIN requests :
        /\ managed.kind = "Single"
        /\ TokenOf(r1).kid = None /\ TokenOf(r2).kid = "k2"
        /\ [TokenOf(r1) EXCEPT !.kid = "k2"] = TokenOf(r2)
        /\ requests[r1].outcome["AccessToken"].kind = "Success"
        /\ requests[r2].outcome["AccessToken"].kind = "Success"

\* the claims say what the payload says: same user id and email, and the
\* permissions the payload lists (none when it has no such member)
SameAsPayload(claims, payload) ==
    /\ claims.user_id = payload.user_id
    /\ claims.email = payload.email
    /\ IF payload.permissions = << >> THEN claims.permissions = << >>
       ELSE /\ Len(claims.permissions) = Len(payload.permissions[1])
            /\ \A i \in DOMAIN claims.permissions :
                  (claims.permissions[i] = "Admin") <=> (payload.permissions[1][i] = "admin")

\* C11: with Multiple key material, a token with a user id that is signed by
\* the key its kid names in the map, with the right algorithm, audience and
\* required claims, decodes, and the claims equal its payload.
C11_ValidTokenDecodes ==
    \A r \in DOMAIN requests :
        ( /\ Evaluated(r, "AccessToken") /\ CarriesBearer(r)
          /\ managed.kind = "Multiple"
          /\ TokenOf(r).kid \in DOMAIN managed.map
          /\ VerifiesUnder(TokenOf(r), managed.map[TokenOf(r).kid])
          /\ TokenOf(r).payload.user_id \in Users )
        => /\ requests[r].outcome["AccessToken"].kind = "Success"
           /\ SameAsPayload(requests[r].outcome["AccessToken"].value, TokenOf(r).payload)

\* C15: a token that verifies and whose permissions hold a value outside the
\* Permission enumeration still decodes and authenticates its user, and the
\* admin guard is Forbidden unless admin is among the permissions too.
C15_UnknownPermissionNotGranted ==
    \A r \in DOMAIN requests :
        ( /\ CarriesBearer(r)
          /\ \E d \in Selected(managed, TokenOf(r)) : VerifiesUnder(TokenOf(r), d)
          /\ TokenOf(r).payload.user_id \in Users
          /\ "other" \in RawPermissionsOf(TokenOf(r).payload) )
        => /\ Evaluated(r, "AccessToken") =>
                 requests[r].outcome["AccessToken"].kind = "Success"
           /\ Evaluated(r, "AuthorizedUser") =>
                 requests[r].outcome["AuthorizedUser"].kind = "Success"
           /\ Evaluated(r, "AdminUser") =>
                 IF "admin" \in RawPermissionsOf(TokenOf(r).payload)
                 THEN requests[r].outcome["AdminUser"].kind = "Success"
                 ELSE requests[r].outcome["AdminUser"].status = "Forbidden"

\* C16: a token that verifies and whose payload has no permissions member
\* decodes with an empty permission list: AuthorizedUser succeeds and
\* AdminUser ends with Forbidden, not with Unauthorized.
C16_MissingPermissionsIsEmpty ==
    \A r \in DOMAIN requests :
        ( /\ CarriesBearer(r)
          /\ \E d \in Selected(managed, TokenOf(r)) : VerifiesUnder(TokenOf(r), d)
          /\ TokenOf(r).payload.user_id \in Users
          /\ TokenOf(r).payload.permissions = << >> )
        => /\ Evaluated(r, "AccessToken") =>
                 /\ requests[r].outcome["AccessToken"].kind = "Success"
                 /\ requests[r].outcome["AccessToken"].value.permissions = << >>
           /\ Evaluated(r, "AuthorizedUser") =>
                 /\ requests[r].outcome["AuthorizedUser"].kind = "Success"
                 /\ requests[r].outcome["AuthorizedUser"].value.id
                       = TokenOf(r).payload.user_id
           /\ Evaluated(r, "AdminUser") =>
                 /\ requests[r].outcome["AdminUser"].kind = "Error"
                 /\ requests[r].outcome["AdminUser"].status = "Forbidden"

\* a verified token without permissions member has been through all guards
C16_Witness ==
    \E r \in DOMAIN requests :
        /\ CarriesBearer(r)
        /\ TokenOf(r).payload.permissions = << >>
        /\ requests[r].outcome["AccessToken"].kind = "Success"
        /\ requests[r].outcome["AuthorizedUser"].kind = "Success"
        /\ requests[r].outcome["AdminUser"].status = "Forbidden"

\* C17: every guard evaluation ends with Success, with Unauthorized or with
\* Forbidden, never with a Forward; Forbidden comes only from the AdminUser
\* guard, after the token has decoded.
C17_ThreeOutcomes ==
    \A r \in DOMAIN requests : \A g \in Guards :
        Evaluated(r, g)
        => /\ requests[r].outcome[g].kind \in {"Success", "Error"}
           /\ requests[r].outcome[g].kind = "Error" =>
                 requests[r].outcome[g].status \in {"Unauthorized", "Forbidden"}
           /\ requests[r].outcome[g].status = "Forbidden" =>
                 /\ g = "AdminUser"
                 /\ CarriesBearer(r)
                 /\ FullyVerified(TokenOf(r), managed)
                 /\ "to_admin" \in Range(requests[r].outcome[g].steps)

\* one request has met two of the outcomes in its three guards
C17_Witness ==
    \E r \in DOMAIN requests :
        /\ requests[r].outcome["AccessToken"].kind = "Success"
        /\ requests[r].outcome["AuthorizedUser"].kind = "Success"
        /\ requests[r].outcome["AdminUser"].status = "Forbidden"
        /\ requests[r].response.sent

\* the entries of the retrieved key set that have a usable key and a kid
UsableEntries ==
    {i \in DOMAIN env.remote.val :
        env.remote.val[i].key # None /\ env.remote.val[i].kid # None}

\* C18: when the remote key set is retrieved, the server starts and the kids
\* of the Multiple map are exactly the kids of the entries that have a usable
\* key and a kid; each maps to the key of such an entry (the last of that
\* kid), whatever other entries were dropped.
C18_MapOfUsableEntries ==
    ~RemoteFails
    => /\ phase # "failed"
       /\ phase = "orbit" =>
             /\ managed.kind = "Multiple"
             /\ DOMAIN managed.map = {env.remote.val[i].kid : i \in UsableEntries}
             /\ \A k \in DOMAIN managed.map :
                   \E i \in UsableEntries :
                      /\ env.remote.val[i].kid = k
                      /\ env.remote.val[i].key = managed.map[k].key
                      /\ \A j \in UsableEntries :
                            env.remote.val[j].kid = k => j <= i

\* an entry without usable key was dropped and the entry after it was kept
C18_Witness ==
    /\ phase = "orbit"
    /\ ~RemoteFails
    /\ Len(env.remote.val) = 2
    /\ env.remote.val[1] = Jwk(None, "k1")
    /\ DOMAIN managed.map = {"k2"}

\* C19: with Multiple key material a token whose kid names a key of the map
\* is verified against that key and no other; signed by another key, also by
\* one of the map, it is rejected.
C19_KeySeparation ==
    \A r \in DOMAIN requests : \A g \in Guards :
        ( /\ Evaluated(r, g) /\ CarriesBearer(r)
          /\ managed.kind = "Multiple"
          /\ TokenOf(r).parses
          /\ TokenOf(r).kid \in DOMAIN managed.map )
        => /\ requests[r].outcome[g].tried = {managed.map[TokenOf(r).kid].key}
           /\ TokenOf(r).signer # managed.map[TokenOf(r).kid].key =>
                 /\ requests[r].outcome[g].kind = "Error"
                 /\ requests[r].outcome[g].status = "Unauthorized"

\* a token signed by K1 that names k2, both in the map, has been through the
\* AccessToken guard
C19_Witness ==
    \E r \in DOMAIN requests :
        /\ Evaluated(r, "AccessToken") /\ CarriesBearer(r)
        /\ managed.kind = "Multiple"
        /\ DOMAIN managed.map = {"k1", "k2"}
        /\ TokenOf(r).kid = "k2"
        /\ VerifiesUnder(TokenOf(r), managed.map["k1"])
        /\ WellTyped(TokenOf(r).payload)

\* C13: the key material is installed at most once, by ignition and before
\* any request; the remote key set is fetched at most once, by ignition; once
\* ignition is over no step changes the key material or fetches again.
C13_WriteOnce ==
    [][ /\ managed' # managed =>
              /\ phase = "build" /\ phase' = "orbit"
              /\ managed = Unmanaged
              /\ requests = << >>
        /\ fetches' # fetches =>
              /\ phase = "build" /\ phase' # "build"
              /\ fetches = 0 /\ fetches' = 1
              /\ requests = << >>
        /\ phase # "build" =>
              /\ managed' = managed
              /\ fetches' = fetches
              /\ phase' = phase ]_vars

\* the key set was fetched once and a token of unknown key has been refused
C13_Witness ==
    /\ phase = "orbit"
    /\ fetches = 1
    /\ managed.kind = "Multiple"
    /\ \E r \in DOMAIN requests :
          requests[r].outcome["AccessToken"].error = "unknown token key"

\* the outcome a guard has for a request resolved on its own: Success for a
\* verified bearer token (with the admin permission, for AdminUser),
\* Forbidden for a verified one without it, Unauthorized for all others
AloneOutcome(r, g) ==
    LET verified == CarriesBearer(r) /\ FullyVerified(TokenOf(r), managed)
        admin == "admin" \in RawPermissionsOf(TokenOf(r).payload)
    IN  IF ~verified THEN <<"Error", "Unauthorized">>
        ELSE IF g = "AdminUser" /\ ~admin THEN <<"Error", "Forbidden">>
        ELSE <<"Success", None>>

\* the record of a request, << >> when it is not in flight
InFlight(reqs, r) == IF r \in DOMAIN reqs THEN <<reqs[r]>> ELSE << >>

\* C12: with requests in flight together, each guard outcome is the one the
\* request gets on its own against the managed key material; an outcome,
\* once there, stays as it is (no retry); a step changes one request only
\* and leaves environment, phase and key material alone.
C12_RequestsIndependent ==
    /\ [](\A r \in DOMAIN requests : \A g \in Guards :
             Evaluated(r, g) =>
                /\ <<requests[r].outcome[g].kind, requests[r].outcome[g].status>>
                      = AloneOutcome(r, g)
                /\ requests[r].outcome[g]
                      = from_request(g, requests[r].authorization, managed))
    /\ [][ /\ \A r \in DOMAIN requests \cap DOMAIN requests' : \A g \in Guards :
                 Evaluated(r, g) => requests'[r].outcome[g] = requests[r].outcome[g]
           /\ \A r1 \in PairIds, r2 \in PairIds :
                 ( /\ InFlight(requests', r1) # InFlight(requests, r1)
                   /\ InFlight(requests', r2) # InFlight(requests, r2) ) => r1 = r2
           /\ phase = "orbit" => UNCHANGED <<env, phase, managed, fetches>> ]_vars

\* a refused request and a served one are in flight together
C12_Witness ==
    \E r1 \in DOMAIN requests, r2 \in DOMAIN requests :
        /\ requests[r1].outcome["AuthorizedUser"].error = "InvalidSignature"
        /\ requests[r1].response.sent
        /\ requests[r2].outcome["AuthorizedUser"].kind = "Success"
        /\ requests[r2].outcome["AdminUser"].status = "Forbidden"
        /\ requests[r2].response.sent

\* what a guard outcome says: its kind, status, value and error
Said(o) == <<o.kind, o.status, o.value, o.error>>

\* C14: decoding the same token twice with the same key material, at any two
\* points of the process lifetime, gives the same result and the same claims.
C14_DecodeTwiceSame ==
    \A r1 \in DOMAIN requests, r2 \in DOMAIN requests :
        ( /\ Evaluated(r1, "AccessToken") /\ Evaluated(r2, "AccessToken")
          /\ requests[r1].authorization = requests[r2].authorization )
        => Said(requests[r1].outcome["AccessToken"])
              = Said(requests[r2].outcome["AccessToken"])

\* C14, amended: decoding the same token twice with the same key material
\* gives the same result and the same claims when the token's expiry has
\* passed at both of the two points or at neither.
C14_DecodeTwiceSameUnlessExpired ==
    \A r1 \in DOMAIN requests, r2 \in DOMAIN requests :
        ( /\ Evaluated(r1, "AccessToken") /\ Evaluated(r2, "AccessToken")
          /\ requests[r1].authorization = requests[r2].authorization
          /\ (TokenOf(r1).exp < requests[r1].at["AccessToken"])
                <=> (TokenOf(r2).exp < requests[r2].at["AccessToken"]) )
        => Said(requests[r1].outcome["AccessToken"])
              = Said(requests[r2].outcome["AccessToken"])

\* the same token has decoded at two readings of the clock
C14_Witness ==
    \E r1 \in DOMAIN requests, r2 \in DOMAIN requests :
        /\ requests[r1].authorization = requests[r2].authorization
        /\ requests[r1].outcome["AccessToken"].kind = "Success"
        /\ requests[r2].outcome["AccessToken"].kind = "Success"
        /\ requests[r1].at["AccessToken"] < requests[r2].at["AccessToken"]

====
